---- MODULE Spec2Model ----
(***************************************************************************)
(* A model of the bigdbm client: the IABJob schema, the job controller,    *)
(* the paginated collector, the aggregation of intent events, the PII      *)
(* enrichment and the validators.  Each part of the program has its own    *)
(* specification over its own variables; the variables of the other parts  *)
(* stay at their idle values.                                              *)
(***************************************************************************)
EXTENDS Integers, Sequences, FiniteSets, Bags, TLC

VARIABLES
    \* schemas.IABJob
    job,            \* the keyword arguments given to IABJob(...)
    jobResult,      \* "none" before construction, then "ok" or "ValidationError"
    \* validate.phone: the record list the caller holds and the last stage run
    md5s,           \* the list handed to the next validate() call
    prevMd5s,       \* the argument of the last validate() call
    lastStage,      \* the validator that ran last
    calls,          \* the sub-validator calls the last validate() made, in order
    nStages,        \* number of validate() calls made so far
    inputMd5s,      \* the records as they were before the first validate() call
    argAfter,       \* the records the last validate() was given, after the call
    stageStatus,    \* whether the last validate() returned ("ok") or "raised"
    \* client.uniquify_md5s
    events,         \* the list of IntentEvent given to uniquify_md5s
    uniq,           \* outcome of uniquify_md5s(events)
    reagg,          \* outcome of uniquify_md5s on the pairs of uniq's entries
    \* client.pii_for_unique_md5s
    unique_md5s,    \* the list of UniqueMD5 given to pii_for_unique_md5s
    piiResponse,    \* what the GetDataBy/Md5 request of _pull_pii comes back with
    enriched,       \* outcome of pii_for_unique_md5s(unique_md5s)
    \* client._request, one logical request per thread at a time
    accessToken,    \* self._access_token: 0 is "", n > 0 the n-th token issued
    tokenExpired,   \* time.time() >= self._access_token_expiration
    expiries,       \* how many times a token has expired so far
    rpc,            \* where each thread stands in _request
    rreq,           \* the Request each thread is sending
    rresp,          \* the JSON body _request returned to each thread
    rtrace,         \* the sends and sleeps of each thread's current _request
    \* client.wait_until_completion
    wpc,            \* where the calling thread stands in wait_until_completion
    polls,          \* number of get_list_status calls made
    statuses,       \* the status values the polls returned, in order
    list_queue_id,  \* the list_queue_id wait_until_completion is called with
    \* client.create_and_wait
    jpc,            \* where the calling thread stands in create_and_wait
    created,        \* the listQueueId the createList response carried, 0: none yet
    handle,         \* what create_and_wait returned, 0: nothing yet
    \* client.retrieve_md5s
    cpc,            \* where the calling thread stands in retrieve_md5s
    n_threads,      \* the n_threads argument
    page_count,     \* response_json["totalCount"] of page 1, -1 before it is set
    intent_events,  \* the local list the pages are gathered in
    queue,          \* the executor's work queue: page numbers not yet taken
    running,        \* the page each pool worker is pulling, 0 when it has none
    futures,        \* the outcome of pull_page(p) for each submitted page p
    fetched,        \* the page numbers _fetch_result_response was called with
    retrieved,      \* outcome of retrieve_md5s
    \* validate.phone.PhoneValidator._validate_phone
    phone,          \* the phone argument
    numverify,      \* what the numverify request would come back with
    phoneResult,    \* outcome of _validate_phone(phone), with the numbers probed
    \* validate.email.EmailValidator.validate, validate.phone.PhoneValidator.validate
    vkind,          \* the validator whose validate runs: "Email" or "Phone"
    vmd5s,          \* the records validate was given, as they are now
    vinput,         \* the records validate was given, as they were at the call
    max_threads,    \* self.max_threads
    vpc,            \* where the calling thread stands in validate
    pqueue,         \* the work queue of the pool: indices into all_emails / all_phones
    prunning,       \* the index each pool worker is probing, 0: none
    pfut,           \* the future of each probe
    collected,      \* what list(executor.map(...)) has taken from the iterator so far
    vreturn         \* outcome of validate

iabVars == <<job, jobResult>>
valVars == <<md5s, prevMd5s, lastStage, calls, nStages, inputMd5s, argAfter,
            stageStatus>>
aggVars == <<events, uniq, reagg>>
piiVars == <<unique_md5s, piiResponse, enriched>>
reqVars == <<accessToken, tokenExpired, expiries, rpc, rreq, rresp, rtrace>>
waitVars == <<wpc, polls, statuses, list_queue_id>>
jobVars == <<jpc, created, handle>>
pageVars == <<cpc, n_threads, page_count, intent_events, queue, running,
              futures, fetched, retrieved>>
phoneVars == <<phone, numverify, phoneResult>>
probeVars == <<vkind, vmd5s, vinput, max_threads, vpc, pqueue, prunning, pfut,
               collected, vreturn>>
dataVars == <<iabVars, valVars, aggVars, piiVars, phoneVars, jobVars, probeVars>>
vars == <<iabVars, valVars, aggVars, piiVars, reqVars, waitVars, pageVars,
          phoneVars, jobVars, probeVars>>

\* ------------------------------------------------------------------ helpers

Range(s) == {s[i] : i \in 1..Len(s)}

\* number of occurrences of x in s
Count(s, x) == Cardinality({i \in 1..Len(s) : s[i] = x})

\* the same elements with the same multiplicities
SameBag(s, t) == \A x \in Range(s) \cup Range(t) : Count(s, x) = Count(t, x)

NoDuplicates(s) == \A i, j \in 1..Len(s) : s[i] = s[j] => i = j

\* all sequences over S of length at most n
SeqUpTo(S, n) == UNION {[1..k -> S] : k \in 0..n}

\* the outcome of a call: not made yet, raised, or returned v
Raised == [status |-> "raised", value |-> <<>>]
NotRun == [status |-> "none", value |-> <<>>]
Returned(v) == [status |-> "ok", value |-> v]

\* a can be had from b by leaving elements out
RECURSIVE IsSubSeq(_, _)
IsSubSeq(a, b) ==
    IF a = <<>> THEN TRUE
    ELSE IF b = <<>> THEN FALSE
    ELSE IF Head(a) = Head(b) THEN IsSubSeq(Tail(a), Tail(b))
    ELSE IsSubSeq(a, Tail(b))

\* the sequences of a sequence of sequences, joined
RECURSIVE Concat(_)
Concat(ss) == IF ss = <<>> THEN <<>> ELSE Head(ss) \o Concat(Tail(ss))

\* ---------------------------------------------------------------- bounds

MaxListLen == 2     \* longest list given for a field of IABJob
MaxRecs == 2        \* longest record list handed to a validator
MaxStages == 2      \* validate() calls chained by the caller
MaxEvents == 3      \* longest list of intent events given to uniquify_md5s
MaxInput == 2       \* longest list of UniqueMD5 given to pii_for_unique_md5s
MaxThreads == 2     \* largest n_threads given to retrieve_md5s
MaxTokens == 2      \* access tokens issued, the constructor's included
MaxPolls == 3       \* get_list_status calls made by wait_until_completion
MaxPages == 3       \* largest totalCount the server reports
MaxHandles == 2     \* listQueueId values the server issues
MaxItems == 3       \* emails and phones in a record list given to a probing validate

\* ------------------------------------------------- schemas.IABJob (16-46)

\* the values a list field of IABJob is drawn from
FieldValues == SeqUpTo({"a"}, MaxListLen)

IABJobArgs ==
    [intent_categories : FieldValues, zips : FieldValues,
     keywords : FieldValues, domains : FieldValues, n_hems : {100}]

\* validate_job with zips counted as a source of intent
validate_job_zips(self) ==
    IF Len(self.intent_categories) = 0 /\ Len(self.keywords) = 0
       /\ Len(self.domains) = 0 /\ Len(self.zips) = 0
    THEN "ValidationError"
    ELSE "ok"

\* IABJob.validate_job: all([not categories, not keywords, not domains]) raises
validate_job(self) ==
    IF Len(self.intent_categories) = 0 /\ Len(self.keywords) = 0
       /\ Len(self.domains) = 0
    THEN "ValidationError"
    ELSE "ok"

IabIdle == job = [intent_categories |-> <<>>, zips |-> <<>>, keywords |-> <<>>,
                  domains |-> <<>>, n_hems |-> 100]
           /\ jobResult = "none"

InitIab == job \in IABJobArgs /\ jobResult = "none"

\* IABJob(**job): the model validator runs after the fields are set
ConstructIABJob ==
    /\ jobResult = "none"
    /\ jobResult' = validate_job(job)
    /\ UNCHANGED <<job, valVars, aggVars, piiVars, reqVars, waitVars, pageVars, phoneVars, jobVars, probeVars>>

\* ------------------ validate.phone (76-129), validate.email, the stages

Phone(p, dnc) == [phone |-> p, do_not_call |-> dnc]

\* the mobile_phones lists a record is drawn from
PhoneLists ==
    { <<>>,
      <<Phone("p1", TRUE)>>, <<Phone("p1", FALSE)>>,
      <<Phone("p1", TRUE), Phone("p2", FALSE)>>,
      <<Phone("p1", FALSE), Phone("p2", TRUE)>> }

\* the emails lists a record is drawn from
EmailLists == { <<>>, <<"e1">>, <<"e2", "e1">>, <<"e1", "e1">> }

\* an MD5WithPII as the validators see it: its md5, pii.mobile_phones and
\* pii.emails
Records == [md5 : {"m1", "m2"}, mobile_phones : PhoneLists, emails : EmailLists]

\* record lists without a repeated md5 (one record object per identifier)
RecordLists == {r \in SeqUpTo(Records, MaxRecs) :
                   \A i, j \in 1..Len(r) : r[i].md5 = r[j].md5 => i = j}

\* HasPhoneValidator.validate: [md5 for md5 in md5s if md5.pii.mobile_phones]
HasPhoneValidate(list) ==
    SelectSeq(list, LAMBDA r : Len(r.mobile_phones) > 0)

\* DNCValidator.validate: a record without phones hits `continue` and is not
\* appended; otherwise it is appended when its first phone is not DNC
DNCValidate(list) ==
    SelectSeq(list, LAMBDA r : /\ ~(Len(r.mobile_phones) = 0)
                               /\ ~r.mobile_phones[1].do_not_call)

\* what a probe (_validate_email, _validate_phone) comes back with: True,
\* False, or an exception
ProbeAnswers == {"valid", "invalid", "error"}

\* all_emails: the emails of all records, record by record
all_emails(list) == Concat([i \in 1..Len(list) |-> list[i].emails])

\* all_phones: phone.phone of all mobile phones, record by record
all_phones(list) ==
    Concat([i \in 1..Len(list) |->
               [j \in 1..Len(list[i].mobile_phones) |->
                   list[i].mobile_phones[j].phone]])

\* taking every item for valid
ValidItems_all(items, flags) == items

\* [item for item, is_valid in zip(items, flags) if is_valid]
RECURSIVE ValidItems(_, _)
ValidItems(items, flags) ==
    IF items = <<>> \/ flags = <<>> THEN <<>>
    ELSE (IF Head(flags) THEN <<Head(items)>> ELSE <<>>)
         \o ValidItems(Tail(items), Tail(flags))

\* giving every record the whole list of valid emails
RewriteEmails_valid_list(list, valid_emails) ==
    [i \in 1..Len(list) |-> [list[i] EXCEPT !.emails = valid_emails]]

\* md5.pii.emails = [email for email in md5.pii.emails if email in valid_emails]
RewriteEmails(list, valid_emails) ==
    [i \in 1..Len(list) |->
        [list[i] EXCEPT !.emails =
            SelectSeq(@, LAMBDA email : email \in Range(valid_emails))]]

\* md5.pii.mobile_phones = [phone for phone in md5.pii.mobile_phones
\*                          if phone.phone in valid_phones]
RewritePhones(list, valid_phones) ==
    [i \in 1..Len(list) |->
        [list[i] EXCEPT !.mobile_phones =
            SelectSeq(@, LAMBDA ph : ph.phone \in Range(valid_phones))]]

\* the booleans list(executor.map(...)) holds when no probe raised
Flags(answers) == [i \in 1..Len(answers) |-> answers[i] = "valid"]

\* EmailValidator.validate when the probe of the i-th entry of all_emails
\* comes back with answers[i]: an exception of a probe leaves validate,
\* otherwise the lists are rewritten and md5s is returned
EmailValidate(list, answers) ==
    IF \E i \in 1..Len(answers) : answers[i] = "error"
    THEN Raised
    ELSE Returned(RewriteEmails(list,
                      ValidItems(all_emails(list), Flags(answers))))

\* PhoneValidator.validate, likewise
PhoneValidate(list, answers) ==
    IF \E i \in 1..Len(answers) : answers[i] = "error"
    THEN Raised
    ELSE Returned(RewritePhones(list,
                      ValidItems(all_phones(list), Flags(answers))))

\* a validate that never assigns to the records it is given
ArgumentAfter_untouched(stage, list, outcome) == list

\* the records of the list a stage was called with, as they are after the
\* call: EmailValidator and PhoneValidator assign the filtered lists to the
\* records they were given and return the list they were given; the other
\* stages build a new list and assign nothing
ArgumentAfter(stage, list, outcome) ==
    IF stage \in {"Email", "Phone"} /\ outcome.status = "ok"
    THEN outcome.value ELSE list

Call(stage, arg) == [stage |-> stage, arg |-> arg]

\* CallableValidator.validate with the two stages called the other way round
CallableCalls_swapped(list) ==
    << Call("DNC", list), Call("HasPhone", DNCValidate(list)) >>

\* CallableValidator.validate with the default sub-validators: the calls made
\* by dnc_validator.validate(phone_validator.validate(md5s)), inner call first
CallableCalls(list) ==
    << Call("HasPhone", list), Call("DNC", HasPhoneValidate(list)) >>

\* the result of a sub-validator call
CallResult(c) ==
    IF c.stage = "HasPhone" THEN HasPhoneValidate(c.arg) ELSE DNCValidate(c.arg)

\* CallableValidator.validate returns what its last call returns
CallableValidate(list) == CallResult(CallableCalls(list)[2])

ValIdle == md5s = <<>> /\ prevMd5s = <<>> /\ lastStage = "none"
           /\ calls = <<>> /\ nStages = 0
           /\ inputMd5s = <<>> /\ argAfter = <<>> /\ stageStatus = "none"

InitVal == md5s \in RecordLists /\ prevMd5s = <<>> /\ lastStage = "none"
           /\ calls = <<>> /\ nStages = 0
           /\ inputMd5s = md5s /\ argAfter = <<>> /\ stageStatus = "none"

\* the caller runs md5s = stage.validate(md5s); an exception ends the chain
RunStage(name, cs, outcome) ==
    /\ nStages < MaxStages
    /\ stageStatus # "raised"
    /\ prevMd5s' = md5s
    /\ md5s' = IF outcome.status = "ok" THEN outcome.value ELSE md5s
    /\ stageStatus' = outcome.status
    /\ argAfter' = ArgumentAfter(name, md5s, outcome)
    /\ lastStage' = name
    /\ calls' = cs
    /\ nStages' = nStages + 1
    /\ UNCHANGED <<inputMd5s, iabVars, aggVars, piiVars, reqVars, waitVars,
                   pageVars, phoneVars, jobVars, probeVars>>

ApplyHasPhone ==
    RunStage("HasPhone", <<Call("HasPhone", md5s)>>,
             Returned(HasPhoneValidate(md5s)))

ApplyDNC ==
    RunStage("DNC", <<Call("DNC", md5s)>>, Returned(DNCValidate(md5s)))

ApplyCallable ==
    RunStage("Callable", CallableCalls(md5s), Returned(CallableValidate(md5s)))

ApplyEmail ==
    \E answers \in [1..Len(all_emails(md5s)) -> ProbeAnswers] :
        RunStage("Email", <<Call("Email", md5s)>>, EmailValidate(md5s, answers))

ApplyPhone ==
    \E answers \in [1..Len(all_phones(md5s)) -> ProbeAnswers] :
        RunStage("Phone", <<Call("Phone", md5s)>>, PhoneValidate(md5s, answers))

\* ------------------------------ schemas.UniqueMD5, client.uniquify_md5s

\* strings are sequences of characters
Sports == <<"S", "p", "o", "r", "t", "s">>
News == <<"N", "e", "w", "s">>

DigitChars == {"0", "1", "2", "3", "4", "5", "6", "7", "8", "9"}

\* str.isnumeric: at least one character and every character numeric
isnumeric(str) ==
    Len(str) > 0 /\ \A i \in 1..Len(str) : str[i] \in DigitChars

\* bigdbm.taxonomy's code -> category table, as far as the model needs it
CodeTable == (<<"7">> :> Sports) @@ (<<"1", "2">> :> News)

\* bigdbm.taxonomy.code_to_category on a code of the table
code_to_category(code) == CodeTable[code]

\* the sentences an intent event is drawn from: two known codes, a label one of
\* them resolves to, and a code the table does not know
Sentences == {<<"7">>, <<"1", "2">>, Sports, <<"9", "9">>}

Md5s == {"m1", "m2"}

IntentEvents == [md5 : Md5s, sentence : Sentences]

\* list(set(sentences)): the distinct sentences, in whatever order the set
\* iterates them
ListOfSet(sentences) ==
    {o \in [1..Cardinality(Range(sentences)) -> Range(sentences)] :
        \A i, j \in DOMAIN o : o[i] = o[j] => i = j}

\* the loop of transform_iab_codes over one ordering: each numeric sentence is
\* replaced in place by its category; a code outside the table raises
ReplaceCodes(ordered) ==
    IF \E i \in DOMAIN ordered :
          isnumeric(ordered[i]) /\ ordered[i] \notin DOMAIN CodeTable
    THEN Raised
    ELSE Returned([i \in DOMAIN ordered |->
                     IF isnumeric(ordered[i]) THEN code_to_category(ordered[i])
                     ELSE ordered[i]])

\* UniqueMD5.transform_iab_codes: the outcomes of the field validator
transform_iab_codes(sentences) ==
    {ReplaceCodes(o) : o \in ListOfSet(sentences)}

\* a key for every event, whether or not its md5 was seen before
DictKeys_every_event(evs) == [i \in 1..Len(evs) |-> evs[i].md5]

\* the keys of md5s_dict, in insertion order
RECURSIVE DictKeys(_)
DictKeys(evs) ==
    IF evs = <<>> THEN <<>>
    ELSE LET front == DictKeys(SubSeq(evs, 1, Len(evs) - 1))
             last == evs[Len(evs)].md5
         IN  IF last \in Range(front) THEN front ELSE Append(front, last)

\* md5s_dict[key]: the sentences of the events of that md5, in event order
DictValue(evs, key) ==
    LET mine == SelectSeq(evs, LAMBDA e : e.md5 = key)
    IN  [i \in 1..Len(mine) |-> mine[i].sentence]

\* BigDBMClient.uniquify_md5s: one UniqueMD5 per key of md5s_dict; the call
\* raises when the construction of any of them does
uniquify_md5s(evs) ==
    LET keys == DictKeys(evs)
        T(i) == transform_iab_codes(DictValue(evs, keys[i]))
        picks == {f \in [1..Len(keys) -> UNION {T(i) : i \in 1..Len(keys)}] :
                     \A i \in 1..Len(keys) : f[i] \in T(i)}
    IN  {IF \E i \in DOMAIN f : f[i].status = "raised" THEN Raised
         ELSE Returned([i \in DOMAIN f |->
                          [md5 |-> keys[i], sentences |-> f[i].value]]) :
         f \in picks}

\* the (md5, sentence) pairs of a list of UniqueMD5, entry by entry
RECURSIVE PairsOf(_)
PairsOf(list) ==
    IF list = <<>> THEN <<>>
    ELSE LET u == list[1]
         IN  [i \in 1..Len(u.sentences) |->
                 [md5 |-> u.md5, sentence |-> u.sentences[i]]]
             \o PairsOf(Tail(list))

AggIdle == events = <<>> /\ uniq = NotRun /\ reagg = NotRun

InitAgg == events \in SeqUpTo(IntentEvents, MaxEvents)
           /\ uniq = NotRun /\ reagg = NotRun

\* uniq = client.uniquify_md5s(events)
Uniquify ==
    /\ uniq.status = "none"
    /\ uniq' \in uniquify_md5s(events)
    /\ UNCHANGED <<events, reagg, iabVars, valVars, piiVars, reqVars, waitVars, pageVars, phoneVars, jobVars, probeVars>>

\* uniquify_md5s again, on the events rebuilt from its own output
Reaggregate ==
    /\ uniq.status = "ok"
    /\ reagg.status = "none"
    /\ reagg' \in uniquify_md5s(PairsOf(uniq.value))
    /\ UNCHANGED <<events, uniq, iabVars, valVars, piiVars, reqVars, waitVars, pageVars, phoneVars, jobVars, probeVars>>

\* --------------------------------------------- client.pii_for_unique_md5s

\* the raw sentence lists the UniqueMD5 objects of an input list were built from
RawSentenceLists == {<<>>, <<<<"7">>>>, <<<<"7">>, Sports>>, <<<<"7">>, <<"1", "2">>>>}

\* the UniqueMD5 objects that can be constructed: the field validator has run
UniqueMD5s ==
    {[md5 |-> m, sentences |-> r.value] :
        m \in Md5s,
        r \in {o \in UNION {transform_iab_codes(raw) : raw \in RawSentenceLists} :
                  o.status = "ok"}}

\* the keys a returnData mapping may hold: m3 is never asked for
PiiKeys == Md5s \cup {"m3"}

\* returnData[key]: a list holding one detail object, complete or lacking a
\* field PII requires, or holding none
DetailLists == {<<"complete">>, <<"incomplete">>, <<>>}

\* what _request gives _pull_pii: it raised, or a body with returnData
PiiResponses ==
    {[ok |-> FALSE]} \cup
    {[ok |-> TRUE, returnData |-> d] :
        d \in UNION {[K -> DetailLists] : K \in SUBSET PiiKeys}}

\* BigDBMClient._pull_pii: data[key] = data[key][0] for every key returned
pull_pii(response) ==
    IF ~response.ok THEN Raised
    ELSE IF \E k \in DOMAIN response.returnData : response.returnData[k] = <<>>
    THEN Raised
    ELSE Returned([k \in DOMAIN response.returnData |-> response.returnData[k][1]])

\* some enumeration of a finite set
RECURSIVE SetToSeq(_)
SetToSeq(S) ==
    IF S = {} THEN <<>>
    ELSE LET x == CHOOSE y \in S : TRUE IN <<x>> \o SetToSeq(S \ {x})

\* pii_for_unique_md5s with the loop run over the keys of pii_data
pii_for_unique_md5s_by_key(list, response) ==
    LET pulled == pull_pii(response)
        keys == SetToSeq(DOMAIN pulled.value)
    IN  IF pulled.status = "raised" THEN {Raised}
        ELSE {Returned([i \in 1..Len(keys) |->
                 [md5 |-> keys[i], sentences |-> <<>>, pii |-> pulled.value[keys[i]]]])}

\* pii_for_unique_md5s without the `continue`: pii_data[md5.md5] is read for
\* every input entry and an md5 that is no key of pii_data raises KeyError
pii_for_unique_md5s_strict(list, response) ==
    LET pulled == pull_pii(response)
    IN  IF pulled.status = "raised" THEN {Raised}
        ELSE IF \E i \in 1..Len(list) : list[i].md5 \notin DOMAIN pulled.value
        THEN {Raised}
        ELSE {IF \E i \in 1..Len(list) : pulled.value[list[i].md5] = "incomplete"
              THEN Raised
              ELSE Returned([i \in 1..Len(list) |->
                      [md5 |-> list[i].md5, sentences |-> list[i].sentences,
                       pii |-> pulled.value[list[i].md5]]])}

\* BigDBMClient.pii_for_unique_md5s: one MD5WithPII per input entry whose md5
\* is a key of pii_data, in input order; MD5WithPII runs the sentences
\* validator of UniqueMD5 again and PII.from_api_dict raises on a detail
\* object lacking a required field
pii_for_unique_md5s(list, response) ==
    LET pulled == pull_pii(response)
        hits == SelectSeq(list, LAMBDA u : u.md5 \in DOMAIN pulled.value)
        T(i) == transform_iab_codes(hits[i].sentences)
        picks == {f \in [1..Len(hits) -> UNION {T(i) : i \in 1..Len(hits)}] :
                     \A i \in 1..Len(hits) : f[i] \in T(i)}
    IN  IF pulled.status = "raised" THEN {Raised}
        ELSE {IF \E i \in DOMAIN f :
                    \/ f[i].status = "raised"
                    \/ pulled.value[hits[i].md5] = "incomplete"
              THEN Raised
              ELSE Returned([i \in DOMAIN f |->
                      [md5 |-> hits[i].md5, sentences |-> f[i].value,
                       pii |-> pulled.value[hits[i].md5]]]) :
              f \in picks}

PiiIdle == unique_md5s = <<>> /\ piiResponse = [ok |-> FALSE] /\ enriched = NotRun

InitPii == unique_md5s \in SeqUpTo(UniqueMD5s, MaxInput)
           /\ piiResponse \in PiiResponses
           /\ enriched = NotRun

\* enriched = client.pii_for_unique_md5s(unique_md5s)
Enrich ==
    /\ enriched.status = "none"
    /\ enriched' \in pii_for_unique_md5s(unique_md5s, piiResponse)
    /\ UNCHANGED <<unique_md5s, piiResponse, iabVars, valVars, aggVars, reqVars, waitVars, pageVars, phoneVars, jobVars, probeVars>>

\* ------------------------------------------ client._request (39-99)

\* thread 0 is the caller's; the others are the workers of a pool
Threads == 0..MaxThreads

NoRequest == [kind |-> "none"]
NoResponse == [kind |-> "none"]

\* BigDBMClient._access_token_valid
access_token_valid == accessToken # 0 /\ ~tokenExpired

\* the bodies the server may answer a request with
StatusValues == {0, 99, 100, 101, 200}

\* the row lists of a result page: no row, or two rows marked with the page
RowLists(page) ==
    { <<>>,
      <<[mD5 |-> "m1", sentence |-> page], [mD5 |-> "m2", sentence |-> page]>> }

\* the totalCount of a result page: any count on page 1, which is the one
\* retrieve_md5s reads; on the other pages the smallest or the largest
TotalCounts(page) == IF page = 1 THEN 0..MaxPages ELSE {0, MaxPages}

\* the listQueueId values the server issues
Handles == 1..MaxHandles

Responses(request) ==
    IF request.kind = "checkList"
    THEN {[kind |-> "checkList", status |-> v] : v \in StatusValues}
    ELSE IF request.kind = "result"
    THEN {[kind |-> "result", totalCount |-> n, result |-> rows] :
             n \in TotalCounts(request.page), rows \in RowLists(request.page)}
    ELSE IF request.kind = "createList"
    THEN {[kind |-> "createList", listQueueId |-> h] : h \in Handles}
    ELSE {[kind |-> request.kind]}

\* retrying after every failed send
OnSendFailure_always_retry(attempt) == "sleep"

\* the try/except of _request: the first failed send is caught and followed by
\* time.sleep(10) and a second send; the second send is outside any try
OnSendFailure(attempt) == IF attempt = 1 THEN "sleep" ELSE "raised"

SendsOf(trace) == SelectSeq(trace, LAMBDA e : e # "sleep")

ReqIdle ==
    /\ accessToken = 1 /\ tokenExpired = FALSE /\ expiries = 0
    /\ rpc = [t \in Threads |-> "idle"]
    /\ rreq = [t \in Threads |-> NoRequest]
    /\ rresp = [t \in Threads |-> NoResponse]
    /\ rtrace = [t \in Threads |-> <<>>]

\* the constructor has fetched the first token; it may have expired since
InitReq ==
    /\ accessToken = 1 /\ tokenExpired \in BOOLEAN
    /\ expiries = IF tokenExpired THEN 1 ELSE 0
    /\ rpc = [t \in Threads |-> "idle"]
    /\ rreq = [t \in Threads |-> NoRequest]
    /\ rresp = [t \in Threads |-> NoResponse]
    /\ rtrace = [t \in Threads |-> <<>>]

\* thread t enters self._request(request)
CallRequest(t, request) ==
    /\ rpc[t] = "idle"
    /\ rpc' = [rpc EXCEPT ![t] = "check"]
    /\ rreq' = [rreq EXCEPT ![t] = request]
    /\ rresp' = [rresp EXCEPT ![t] = NoResponse]
    /\ rtrace' = [rtrace EXCEPT ![t] = <<>>]
    /\ UNCHANGED <<accessToken, tokenExpired, expiries>>

\* thread t has taken the result or the exception of its _request
LeaveRequest(t) ==
    /\ rpc' = [rpc EXCEPT ![t] = "idle"]
    /\ rreq' = [rreq EXCEPT ![t] = NoRequest]
    /\ rresp' = [rresp EXCEPT ![t] = NoResponse]
    /\ rtrace' = [rtrace EXCEPT ![t] = <<>>]
    /\ UNCHANGED <<accessToken, tokenExpired, expiries>>

\* time passes the expiration of the current token
TokenExpires ==
    /\ ~tokenExpired
    /\ accessToken < MaxTokens
    /\ tokenExpired' = TRUE
    /\ expiries' = expiries + 1
    /\ UNCHANGED <<accessToken, rpc, rreq, rresp, rtrace>>

\* if not self._access_token_valid(): self._update_token()
ReqCheckToken(t) ==
    /\ rpc[t] = "check"
    /\ rpc' = [rpc EXCEPT ![t] = IF access_token_valid THEN "send" ELSE "refresh"]
    /\ UNCHANGED <<accessToken, tokenExpired, expiries, rreq, rresp, rtrace>>

\* self._update_token() up to its first assignment: the token request succeeds
\* and self._access_token is stored, or raise_for_status raises out of _request
ReqUpdateToken(t) ==
    /\ rpc[t] = "refresh"
    /\ \/ /\ accessToken' = accessToken + 1
          /\ rpc' = [rpc EXCEPT ![t] = "store_expiration"]
       \/ /\ rpc' = [rpc EXCEPT ![t] = "raised"]
          /\ UNCHANGED accessToken
    /\ UNCHANGED <<tokenExpired, expiries, rreq, rresp, rtrace>>

\* the second assignment of _update_token: self._access_token_expiration
ReqStoreExpiration(t) ==
    /\ rpc[t] = "store_expiration"
    /\ tokenExpired' = FALSE
    /\ rpc' = [rpc EXCEPT ![t] = "send"]
    /\ UNCHANGED <<accessToken, expiries, rreq, rresp, rtrace>>

\* session.send(request.prepare()); response.raise_for_status(): the send
\* succeeds and response.json() is returned, or it succeeds with a body that is
\* no JSON and response.json() raises, or it fails with a RequestException
ReqSend(t) ==
    /\ rpc[t] = "send"
    /\ \/ \E body \in Responses(rreq[t]) :
            /\ rtrace' = [rtrace EXCEPT ![t] = Append(@, "ok")]
            /\ rresp' = [rresp EXCEPT ![t] = body]
            /\ rpc' = [rpc EXCEPT ![t] = "returned"]
       \/ /\ rtrace' = [rtrace EXCEPT ![t] = Append(@, "ok")]
          /\ rpc' = [rpc EXCEPT ![t] = "raised"]
          /\ UNCHANGED rresp
       \/ /\ rtrace' = [rtrace EXCEPT ![t] = Append(@, "failed")]
          /\ rpc' = [rpc EXCEPT ![t] = OnSendFailure(Len(SendsOf(rtrace[t])) + 1)]
          /\ UNCHANGED rresp
    /\ UNCHANGED <<accessToken, tokenExpired, expiries, rreq>>

\* time.sleep(10) in the except branch
ReqSleep(t) ==
    /\ rpc[t] = "sleep"
    /\ rtrace' = [rtrace EXCEPT ![t] = Append(@, "sleep")]
    /\ rpc' = [rpc EXCEPT ![t] = "send"]
    /\ UNCHANGED <<accessToken, tokenExpired, expiries, rreq, rresp>>

RequestStep(t) ==
    ReqCheckToken(t) \/ ReqUpdateToken(t) \/ ReqStoreExpiration(t)
    \/ ReqSend(t) \/ ReqSleep(t)

\* ------------------------- client.wait_until_completion (140-158)

\* the loop body after a poll returned status
AfterStatus_no_error_check(status) ==
    IF status # 100 THEN "sleeping" ELSE "returned"

\* while (status := ...) != 100: if status > 100: raise ...; time.sleep(3)
AfterStatus(status) ==
    IF status # 100
    THEN IF status > 100 THEN "BigDBMApiError" ELSE "sleeping"
    ELSE "returned"

WaitIdle == wpc = "idle" /\ polls = 0 /\ statuses = <<>> /\ list_queue_id = 0

InitWait ==
    wpc = "call" /\ polls = 0 /\ statuses = <<>> /\ list_queue_id \in Handles

\* a status request for the first list, whatever list is asked for
PollRequest_first(id) == [kind |-> "checkList", listQueueId |-> 1]

\* the Request of get_list_status: params={"listQueueId": list_queue_id}
PollRequest(id) == [kind |-> "checkList", listQueueId |-> id]

\* the loop head calls get_list_status, which calls _request
GetListStatus ==
    /\ wpc = "call"
    /\ polls < MaxPolls
    /\ CallRequest(0, PollRequest(list_queue_id))
    /\ wpc' = "polling"
    /\ polls' = polls + 1
    /\ UNCHANGED <<statuses, list_queue_id, dataVars, pageVars>>

\* get_list_status returns int(response["status"]) and the loop tests it
WaitObserve ==
    /\ wpc = "polling"
    /\ rpc[0] = "returned"
    /\ statuses' = Append(statuses, rresp[0].status)
    /\ wpc' = AfterStatus(rresp[0].status)
    /\ LeaveRequest(0)
    /\ UNCHANGED <<polls, list_queue_id, dataVars, pageVars>>

\* an exception of _request leaves wait_until_completion
WaitRequestError ==
    /\ wpc = "polling"
    /\ rpc[0] = "raised"
    /\ wpc' = "RequestException"
    /\ LeaveRequest(0)
    /\ UNCHANGED <<polls, statuses, list_queue_id, dataVars, pageVars>>

\* time.sleep(3), then back to the loop head
WaitSleep ==
    /\ wpc = "sleeping"
    /\ wpc' = "call"
    /\ UNCHANGED <<polls, statuses, list_queue_id, reqVars, dataVars, pageVars>>

WaitRequestStep == RequestStep(0) /\ UNCHANGED <<waitVars, dataVars, pageVars>>

WaitTokenExpires == TokenExpires /\ UNCHANGED <<waitVars, dataVars, pageVars>>

\* ------------------------------ client.create_and_wait (101-138, 160-167)

JobIdle == jpc = "idle" /\ created = 0 /\ handle = 0

InitJob == jpc = "start" /\ created = 0 /\ handle = 0

jobRest == <<iabVars, valVars, aggVars, piiVars, phoneVars, pageVars, probeVars>>

\* create_job first calls get_config_dates, which calls _request
JobGetConfigDates ==
    /\ jpc = "start"
    /\ CallRequest(0, [kind |-> "configData"])
    /\ jpc' = "config"
    /\ UNCHANGED <<created, handle, waitVars, jobRest>>

\* get_config_dates has returned the ConfigDates
JobConfigReturned ==
    /\ jpc = "config"
    /\ rpc[0] = "returned"
    /\ LeaveRequest(0)
    /\ jpc' = "create"
    /\ UNCHANGED <<created, handle, waitVars, jobRest>>

\* create_job posts the createList request
JobCreateList ==
    /\ jpc = "create"
    /\ CallRequest(0, [kind |-> "createList"])
    /\ jpc' = "creating"
    /\ UNCHANGED <<created, handle, waitVars, jobRest>>

\* create_job returns int(response["listQueueId"]); create_and_wait keeps it
\* as list_queue_id and calls wait_until_completion(list_queue_id)
JobCreated ==
    /\ jpc = "creating"
    /\ rpc[0] = "returned"
    /\ created' = rresp[0].listQueueId
    /\ list_queue_id' = rresp[0].listQueueId
    /\ LeaveRequest(0)
    /\ jpc' = "waiting"
    /\ wpc' = "call"
    /\ UNCHANGED <<handle, polls, statuses, jobRest>>

\* an exception of _request leaves create_job and create_and_wait
JobCreateRaised ==
    /\ jpc \in {"config", "creating"}
    /\ rpc[0] = "raised"
    /\ LeaveRequest(0)
    /\ jpc' = "raised"
    /\ UNCHANGED <<created, handle, waitVars, jobRest>>

\* wait_until_completion has returned: return list_queue_id
JobReturn ==
    /\ jpc = "waiting"
    /\ wpc = "returned"
    /\ handle' = list_queue_id
    /\ jpc' = "returned"
    /\ UNCHANGED <<created, reqVars, waitVars, jobRest>>

\* an exception of wait_until_completion leaves create_and_wait
JobWaitRaised ==
    /\ jpc = "waiting"
    /\ wpc \in {"BigDBMApiError", "RequestException"}
    /\ jpc' = "raised"
    /\ UNCHANGED <<created, handle, reqVars, waitVars, jobRest>>

\* ------------------------------- client.retrieve_md5s (169-212)

\* BigDBMClient._extract_intent_events
extract_intent_events(fetch_result_json) ==
    [i \in 1..Len(fetch_result_json.result) |->
        [md5 |-> fetch_result_json.result[i].mD5,
         sentence |-> fetch_result_json.result[i].sentence]]

\* a pool that runs a call on every thread it could ever have
PoolWorkers_unbounded(max_workers) == 1..MaxThreads

\* ThreadPoolExecutor(max_workers=n): the worker threads of the pool
PoolWorkers(max_workers) == 1..max_workers

\* range(2, page_count), one page short
PageRange_short(count) == 2..(count - 1)

\* range(1, page_count+1): page 1 given to the pool once more
PageRange_from_one(count) == 1..count

\* range(2, page_count+1): the pages given to executor.map
PageRange(count) == 2..count

\* the pages of a range in ascending order, as executor.map submits them
RECURSIVE Ascending(_)
Ascending(S) ==
    IF S = {} THEN <<>>
    ELSE LET lo == CHOOSE x \in S : \A y \in S : x <= y
         IN  <<lo>> \o Ascending(S \ {lo})

Pending == [status |-> "pending", value |-> <<>>]

\* the loop over result with the pages that raised left out
CollectPages_skip_failed(evs, futs, pages) ==
    LET ok == SelectSeq(pages, LAMBDA p : futs[p].status = "ok")
        RECURSIVE Cat(_)
        Cat(ps) == IF ps = <<>> THEN <<>> ELSE futs[ps[1]].value \o Cat(Tail(ps))
    IN  Returned(evs \o Cat(ok))

\* for page in result: intent_events.extend(page); return intent_events.
\* The iterator yields the futures' results in submission order and raises
\* the exception of the first future that holds one
CollectPages(evs, futs, pages) ==
    LET RECURSIVE Cat(_)
        Cat(ps) == IF ps = <<>> THEN <<>> ELSE futs[ps[1]].value \o Cat(Tail(ps))
    IN  IF \E i \in 1..Len(pages) : futs[pages[i]].status = "raised"
        THEN Raised
        ELSE Returned(evs \o Cat(pages))

PageIdle ==
    /\ cpc = "idle" /\ n_threads = 1 /\ page_count = -1
    /\ intent_events = <<>> /\ queue = <<>>
    /\ running = [w \in 1..MaxThreads |-> 0]
    /\ futures = <<>> /\ fetched = <<>> /\ retrieved = NotRun

InitPage ==
    /\ cpc = "start" /\ n_threads \in 1..MaxThreads /\ page_count = -1
    /\ intent_events = <<>> /\ queue = <<>>
    /\ running = [w \in 1..MaxThreads |-> 0]
    /\ futures = <<>> /\ fetched = <<>> /\ retrieved = NotRun

\* response_json = self._fetch_result_response(list_queue_id, 1)
FetchFirstPage ==
    /\ cpc = "start"
    /\ CallRequest(0, [kind |-> "result", page |-> 1])
    /\ fetched' = Append(fetched, 1)
    /\ cpc' = "page1"
    /\ UNCHANGED <<n_threads, page_count, intent_events, queue, running,
                   futures, retrieved, waitVars, dataVars>>

\* page 1 is back: page_count and intent_events are set, the executor is
\* created and executor.map submits pull_page(p) for every page of the range
FirstPageReturned ==
    /\ cpc = "page1"
    /\ rpc[0] = "returned"
    /\ page_count' = rresp[0].totalCount
    /\ intent_events' = extract_intent_events(rresp[0])
    /\ queue' = Ascending(PageRange(rresp[0].totalCount))
    /\ futures' = [p \in PageRange(rresp[0].totalCount) |-> Pending]
    /\ cpc' = "pool"
    /\ LeaveRequest(0)
    /\ UNCHANGED <<n_threads, running, fetched, retrieved, waitVars, dataVars>>

\* the fetch of page 1 raised: retrieve_md5s raises before any pool exists
FirstPageRaised ==
    /\ cpc = "page1"
    /\ rpc[0] = "raised"
    /\ cpc' = "raised"
    /\ LeaveRequest(0)
    /\ UNCHANGED <<n_threads, page_count, intent_events, queue, running,
                   futures, fetched, retrieved, waitVars, dataVars>>

\* a pool worker without work takes the next page of the queue and calls
\* pull_page(p), which calls _fetch_result_response(list_queue_id, p)
WorkerTake(w) ==
    /\ cpc = "pool"
    /\ w \in PoolWorkers(n_threads)
    /\ running[w] = 0
    /\ queue # <<>>
    /\ running' = [running EXCEPT ![w] = Head(queue)]
    /\ queue' = Tail(queue)
    /\ fetched' = Append(fetched, Head(queue))
    /\ CallRequest(w, [kind |-> "result", page |-> Head(queue)])
    /\ UNCHANGED <<cpc, n_threads, page_count, intent_events, futures,
                   retrieved, waitVars, dataVars>>

\* pull_page(p) ends: its rows or its exception are stored in the future
WorkerDone(w) ==
    /\ running[w] # 0
    /\ rpc[w] \in {"returned", "raised"}
    /\ futures' = [futures EXCEPT ![running[w]] =
                     IF rpc[w] = "returned"
                     THEN Returned(extract_intent_events(rresp[w]))
                     ELSE Raised]
    /\ running' = [running EXCEPT ![w] = 0]
    /\ LeaveRequest(w)
    /\ UNCHANGED <<cpc, n_threads, page_count, intent_events, queue,
                   fetched, retrieved, waitVars, dataVars>>

\* leaving the with block waits for every submitted call; then the loop over
\* result gathers the pages and retrieve_md5s returns or raises
JoinAndCollect ==
    /\ cpc = "pool"
    /\ queue = <<>>
    /\ \A w \in 1..MaxThreads : running[w] = 0
    /\ LET out == CollectPages(intent_events, futures,
                               Ascending(PageRange(page_count)))
       IN  /\ retrieved' = IF out.status = "ok" THEN out ELSE retrieved
           /\ cpc' = IF out.status = "ok" THEN "returned" ELSE "raised"
    /\ UNCHANGED <<n_threads, page_count, intent_events, queue, running,
                   futures, fetched, reqVars, waitVars, dataVars>>

PageRequestStep ==
    /\ \E t \in Threads : RequestStep(t)
    /\ UNCHANGED <<pageVars, waitVars, dataVars>>

\* the token expires while retrieve_md5s runs
PageTokenExpires ==
    /\ cpc # "idle"
    /\ TokenExpires
    /\ UNCHANGED <<pageVars, waitVars, dataVars>>

\* ------------------------- validate.phone.PhoneValidator._validate_phone

PhoneLen == 10          \* if len(phone) != 10
PrefixedLen == 11       \* if len(phone) == 11 and phone.startswith("1")

\* the example number of ten digits, and strings that are no such number
TenDigits == <<"1", "2", "3", "4", "5", "6", "7", "8", "9", "0">>
NineDigits == SubSeq(TenDigits, 2, 10)
ElevenDigits == <<"2">> \o TenDigits
TenOthers == <<"(", "1", "2", "3", ")", "4", "5", "-", "6", "7">>

\* the phone strings _validate_phone is given: each body bare and behind the
\* prefixes "+1", "1" and "+11"
PhoneStrings ==
    {pre \o body :
        pre \in {<<>>, <<"+", "1">>, <<"1">>, <<"+", "1", "1">>},
        body \in {TenDigits, NineDigits, ElevenDigits, TenOthers,
                  <<"1", "2", "3">>}}

\* what requests.get on apilayer.net/api/validate comes back with
NumverifyAnswers == {"valid_true", "valid_false", "no_valid_field", "http_error"}

\* str.startswith
startswith(str, prefix) ==
    Len(str) >= Len(prefix) /\ SubSeq(str, 1, Len(prefix)) = prefix

\* str[n:]
DropFirst(str, n) == SubSeq(str, n + 1, Len(str))

\* the normalisation without the step that drops the leading "1"
normalize_phone_plus_only(str) ==
    IF startswith(str, <<"+", "1">>) THEN DropFirst(str, 2) ELSE str

\* the first two steps of _validate_phone: a leading "+1" is dropped, then
\* the leading "1" of a string of eleven characters
normalize_phone(str) ==
    LET a == IF startswith(str, <<"+", "1">>) THEN DropFirst(str, 2) ELSE str
    IN  IF Len(a) = PrefixedLen /\ startswith(a, <<"1">>)
        THEN DropFirst(a, 1) ELSE a

\* PhoneValidator._validate_phone: False without a request for a string that
\* is not ten characters long; otherwise the request is made with it and the
\* "valid" field of the answer is returned, or the call raises
validate_phone(str, answer) ==
    LET number == normalize_phone(str)
    IN  IF Len(number) # PhoneLen
        THEN [status |-> "ok", value |-> FALSE, probed |-> <<>>]
        ELSE IF answer \in {"http_error", "no_valid_field"}
        THEN [status |-> "raised", value |-> FALSE, probed |-> <<number>>]
        ELSE [status |-> "ok", value |-> (answer = "valid_true"),
              probed |-> <<number>>]

NoPhoneResult == [status |-> "none", value |-> FALSE, probed |-> <<>>]

PhoneIdle == phone = <<>> /\ numverify = "valid_true" /\ phoneResult = NoPhoneResult

InitPhone == phone \in PhoneStrings /\ numverify \in NumverifyAnswers
             /\ phoneResult = NoPhoneResult

\* phoneResult = self._validate_phone(phone)
ValidatePhone ==
    /\ phoneResult.status = "none"
    /\ phoneResult' = validate_phone(phone, numverify)
    /\ UNCHANGED <<phone, numverify, iabVars, valVars, aggVars, piiVars,
                   reqVars, waitVars, pageVars, jobVars, probeVars>>

\* --------- validate.email (39-63), validate.phone (49-73): the probe pool

\* all_emails or all_phones, as the validator is
Items(kind, list) == IF kind = "Email" THEN all_emails(list) ELSE all_phones(list)

\* the loop that assigns the filtered lists
Rewrite(kind, list, valid) ==
    IF kind = "Email" THEN RewriteEmails(list, valid)
    ELSE RewritePhones(list, valid)

\* the record lists validate is given: those with at most MaxItems emails
\* and phones in all
ProbeRecordLists ==
    {r \in RecordLists : Len(all_emails(r)) + Len(all_phones(r)) <= MaxItems}

\* the states of a future that has been run
Done == {"valid", "invalid", "error"}

\* an iterator that takes the exception of a probe for the result False
IteratorRaises_never(state) == FALSE

\* the iterator of executor.map hands on future.result(), which raises the
\* exception the probe raised
IteratorRaises(state) == state = "error"

\* an iterator that yields the results in the order the probes end
NextToCollect_as_completed(futs, coll) ==
    {i \in DOMAIN futs : \A j \in 1..Len(coll) : coll[j].item # i}

\* the iterator of executor.map yields the futures in the order of submission:
\* the future it waits for next
NextToCollect(futs, coll) == {Len(coll) + 1} \cap DOMAIN futs

\* an iterator that leaves the other futures alone when one raises
CancelPending_none(futs, k) == futs

\* the finally clause of the iterator of executor.map: when the k-th result
\* raises, future.cancel() is called on the futures after it, which cancels
\* those that no worker has taken yet
CancelPending(futs, k) ==
    [i \in DOMAIN futs |->
        IF i > k /\ futs[i] = "pending" THEN "cancelled" ELSE futs[i]]

ProbeIdle ==
    /\ vkind = "none" /\ vmd5s = <<>> /\ vinput = <<>> /\ max_threads = 1
    /\ vpc = "idle" /\ pqueue = <<>>
    /\ prunning = [w \in 1..MaxThreads |-> 0]
    /\ pfut = <<>> /\ collected = <<>> /\ vreturn = NotRun

InitProbe ==
    /\ vkind \in {"Email", "Phone"}
    /\ vmd5s \in ProbeRecordLists /\ vinput = vmd5s
    /\ max_threads \in 1..MaxThreads
    /\ vpc = "start" /\ pqueue = <<>>
    /\ prunning = [w \in 1..MaxThreads |-> 0]
    /\ pfut = <<>> /\ collected = <<>> /\ vreturn = NotRun

probeRest == <<iabVars, valVars, aggVars, piiVars, phoneVars, jobVars,
               reqVars, waitVars, pageVars>>

\* all_emails is built, the executor is created and executor.map submits one
\* probe per entry
ProbeSubmit ==
    /\ vpc = "start"
    /\ pqueue' = [i \in 1..Len(Items(vkind, vmd5s)) |-> i]
    /\ pfut' = [i \in 1..Len(Items(vkind, vmd5s)) |-> "pending"]
    /\ vpc' = "pool"
    /\ UNCHANGED <<vkind, vmd5s, vinput, max_threads, prunning, collected,
                   vreturn, probeRest>>

\* a pool worker without work takes the next probe of the queue
ProbeTake(w) ==
    /\ vpc \in {"pool", "failing"}
    /\ w \in PoolWorkers(max_threads)
    /\ prunning[w] = 0
    /\ pqueue # <<>>
    /\ prunning' = [prunning EXCEPT ![w] = Head(pqueue)]
    /\ pfut' = [pfut EXCEPT ![Head(pqueue)] = "running"]
    /\ pqueue' = Tail(pqueue)
    /\ UNCHANGED <<vkind, vmd5s, vinput, max_threads, vpc, collected,
                   vreturn, probeRest>>

\* _validate_email / _validate_phone ends: True, False or an exception is
\* stored in the future
ProbeDone(w) ==
    /\ prunning[w] # 0
    /\ \E answer \in ProbeAnswers :
          pfut' = [pfut EXCEPT ![prunning[w]] = answer]
    /\ prunning' = [prunning EXCEPT ![w] = 0]
    /\ UNCHANGED <<vkind, vmd5s, vinput, max_threads, vpc, pqueue, collected,
                   vreturn, probeRest>>

\* list(...) takes the next result from the iterator
ProbeYield ==
    /\ vpc = "pool"
    /\ \E k \in NextToCollect(pfut, collected) :
          /\ pfut[k] \in Done
          /\ ~IteratorRaises(pfut[k])
          /\ collected' = Append(collected,
                                 [item |-> k, valid |-> (pfut[k] = "valid")])
    /\ UNCHANGED <<vkind, vmd5s, vinput, max_threads, vpc, pqueue, prunning,
                   pfut, vreturn, probeRest>>

\* the next result is an exception: the iterator cancels the futures not yet
\* taken by a worker and the exception leaves list(...)
ProbeIteratorRaises ==
    /\ vpc = "pool"
    /\ \E k \in NextToCollect(pfut, collected) :
          /\ pfut[k] \in Done
          /\ IteratorRaises(pfut[k])
          /\ LET futs == CancelPending(pfut, k)
             IN  /\ pfut' = futs
                 /\ pqueue' = SelectSeq(pqueue, LAMBDA i : futs[i] = "pending")
    /\ vpc' = "failing"
    /\ UNCHANGED <<vkind, vmd5s, vinput, max_threads, prunning, collected,
                   vreturn, probeRest>>

\* every result has been taken: the with block is left, the valid entries are
\* extracted, the lists of the records are assigned and md5s is returned
ProbeRewrite ==
    /\ vpc = "pool"
    /\ Len(collected) = Len(pfut)
    /\ vmd5s' = Rewrite(vkind, vmd5s,
                        ValidItems(Items(vkind, vmd5s),
                                   [i \in 1..Len(collected) |-> collected[i].valid]))
    /\ vreturn' = Returned(vmd5s')
    /\ vpc' = "returned"
    /\ UNCHANGED <<vkind, vinput, max_threads, pqueue, prunning, pfut,
                   collected, probeRest>>

\* the exception leaves the with block, which waits for the pool to end, and
\* then validate
ProbeRaise ==
    /\ vpc = "failing"
    /\ pqueue = <<>>
    /\ \A w \in 1..MaxThreads : prunning[w] = 0
    /\ vreturn' = Raised
    /\ vpc' = "raised"
    /\ UNCHANGED <<vkind, vmd5s, vinput, max_threads, pqueue, prunning, pfut,
                   collected, probeRest>>

\* --------------------------------------------------------- specifications

IabInit == InitIab /\ ValIdle /\ AggIdle /\ PiiIdle /\ ReqIdle /\ WaitIdle /\ PageIdle /\ PhoneIdle
           /\ JobIdle /\ ProbeIdle
NextIab == ConstructIABJob
SpecIab == IabInit /\ [][NextIab]_vars

ValInit == InitVal /\ IabIdle /\ AggIdle /\ PiiIdle /\ ReqIdle /\ WaitIdle /\ PageIdle /\ PhoneIdle
           /\ JobIdle /\ ProbeIdle
NextVal ==
    ApplyHasPhone \/ ApplyDNC \/ ApplyCallable \/ ApplyEmail \/ ApplyPhone
SpecVal == ValInit /\ [][NextVal]_vars

AggInit == InitAgg /\ IabIdle /\ ValIdle /\ PiiIdle /\ ReqIdle /\ WaitIdle /\ PageIdle /\ PhoneIdle
           /\ JobIdle /\ ProbeIdle
NextAgg == Uniquify \/ Reaggregate
SpecAgg == AggInit /\ [][NextAgg]_vars

PiiInit == InitPii /\ IabIdle /\ ValIdle /\ AggIdle /\ ReqIdle /\ WaitIdle /\ PageIdle /\ PhoneIdle
           /\ JobIdle /\ ProbeIdle
NextPii == Enrich
SpecPii == PiiInit /\ [][NextPii]_vars

DataIdle == IabIdle /\ ValIdle /\ AggIdle /\ PiiIdle /\ PhoneIdle /\ JobIdle
            /\ ProbeIdle

WaitInit == InitWait /\ InitReq /\ DataIdle /\ PageIdle
NextWait ==
    \/ GetListStatus \/ WaitObserve \/ WaitRequestError \/ WaitSleep
    \/ WaitRequestStep \/ WaitTokenExpires
SpecWait == WaitInit /\ [][NextWait]_vars

PageInit == InitPage /\ InitReq /\ DataIdle /\ WaitIdle
NextPage ==
    \/ FetchFirstPage \/ FirstPageReturned \/ FirstPageRaised
    \/ (\E w \in 1..MaxThreads : WorkerTake(w))
    \/ (\E w \in 1..MaxThreads : WorkerDone(w))
    \/ JoinAndCollect \/ PageRequestStep \/ PageTokenExpires
SpecPage == PageInit /\ [][NextPage]_vars

PhoneInit == InitPhone /\ IabIdle /\ ValIdle /\ AggIdle /\ PiiIdle
             /\ ReqIdle /\ WaitIdle /\ PageIdle /\ JobIdle /\ ProbeIdle

JobInit == InitJob /\ InitReq /\ WaitIdle /\ PageIdle /\ IabIdle /\ ValIdle
           /\ AggIdle /\ PiiIdle /\ PhoneIdle /\ ProbeIdle
NextJob ==
    \/ JobGetConfigDates \/ JobConfigReturned \/ JobCreateList \/ JobCreated
    \/ JobCreateRaised \/ JobReturn \/ JobWaitRaised
    \/ GetListStatus \/ WaitObserve \/ WaitRequestError \/ WaitSleep
    \/ WaitRequestStep \/ WaitTokenExpires
SpecJob == JobInit /\ [][NextJob]_vars
NextPhone == ValidatePhone
SpecPhone == PhoneInit /\ [][NextPhone]_vars

ProbeInit == InitProbe /\ ReqIdle /\ WaitIdle /\ PageIdle /\ IabIdle /\ ValIdle
             /\ AggIdle /\ PiiIdle /\ PhoneIdle /\ JobIdle
NextProbe ==
    \/ ProbeSubmit
    \/ (\E w \in 1..MaxThreads : ProbeTake(w))
    \/ (\E w \in 1..MaxThreads : ProbeDone(w))
    \/ ProbeYield \/ ProbeIteratorRaises \/ ProbeRewrite \/ ProbeRaise
SpecProbe == ProbeInit /\ [][NextProbe]_vars

\* the three fan-outs: a run is one retrieve_md5s or one validate
FanInit == PageInit \/ ProbeInit
NextFan == NextPage \/ NextProbe
SpecFan == FanInit /\ [][NextFan]_vars

\* ------------------------------------------------------------- properties

\* C1: every status a poll of wait_until_completion returned before the last
\* one was below 100; after a status below 100 the loop sleeps and polls
\* again, after 100 it has returned, after a status above 100 it has raised
\* BigDBMApiError; every poll made is accounted for by a status observed or
\* by the request in flight or failed, so none follows a status of 100 or more.
C1_WaitLoop ==
    LET n == Len(statuses)
    IN  /\ \A i \in 1..(n - 1) : statuses[i] < 100
        /\ n > 0 =>
              /\ statuses[n] = 100 => wpc = "returned"
              /\ statuses[n] > 100 => wpc = "BigDBMApiError"
              /\ statuses[n] < 100 =>
                    wpc \in {"sleeping", "call", "polling", "RequestException"}
        /\ wpc = "returned" => n > 0 /\ statuses[n] = 100
        /\ wpc = "BigDBMApiError" => n > 0 /\ statuses[n] > 100
        /\ polls = n + (IF wpc \in {"polling", "RequestException"} THEN 1 ELSE 0)
        /\ wpc = "sleeping" => ENABLED WaitSleep
        /\ (wpc = "call" /\ polls < MaxPolls) => ENABLED GetListStatus

\* C1 witness: two polls returned a status below 100, the third one above 100,
\* and the call raised.
C1_Witness ==
    /\ wpc = "BigDBMApiError"
    /\ Len(statuses) = 3
    /\ polls = 3

\* C2: page 1 is fetched first and alone: nothing else is fetched, queued or
\* running until its response is in; when it raised nothing more is fetched;
\* otherwise only pages of 2..N are fetched afterwards, each at most once,
\* and when retrieve_md5s ends each of them has been fetched exactly once,
\* which is no further fetch when N <= 1.
C2_PageDispatch ==
    /\ fetched # <<>> => fetched[1] = 1
    /\ cpc \in {"start", "page1"} =>
          /\ Len(fetched) <= 1
          /\ queue = <<>>
          /\ \A w \in 1..MaxThreads : running[w] = 0
    /\ page_count = -1 => Len(fetched) <= 1
    /\ page_count # -1 =>
          /\ NoDuplicates(fetched)
          /\ Range(Tail(fetched)) \subseteq 2..page_count
    /\ (cpc \in {"returned", "raised"} /\ page_count # -1) =>
          /\ Range(Tail(fetched)) = 2..page_count
          /\ Len(fetched) - 1 = (IF page_count <= 1 THEN 0 ELSE page_count - 1)

\* C2 witness: page 1 reported three pages and retrieve_md5s returned after
\* fetching pages 2 and 3.
C2_Witness ==
    /\ cpc = "returned"
    /\ page_count = 3
    /\ fetched = <<1, 2, 3>>

\* C3: retrieve_md5s returns a list only when the fetch of every page
\* succeeded, and then the list holds the rows of all of them; when the fetch
\* of any page raised, retrieve_md5s has raised and returned no list.
C3_AllOrNothing ==
    LET RECURSIVE SumLen(_)
        SumLen(P) == IF P = {} THEN 0
                     ELSE LET p == CHOOSE q \in P : TRUE
                          IN  Len(futures[p].value) + SumLen(P \ {p})
    IN  /\ retrieved.status = "ok" =>
              /\ cpc = "returned"
              /\ DOMAIN futures = 2..page_count
              /\ \A p \in DOMAIN futures : futures[p].status = "ok"
              /\ Len(retrieved.value) = Len(intent_events) + SumLen(DOMAIN futures)
        /\ cpc = "returned" => retrieved.status = "ok"
        /\ cpc = "raised" => retrieved = NotRun
        /\ (cpc \in {"returned", "raised"}
             /\ \E p \in DOMAIN futures : futures[p].status = "raised") =>
              cpc = "raised" /\ retrieved = NotRun

\* C3 witness: of three pages, pages 1 and 2 came back with rows and page 3
\* raised; retrieve_md5s raised and returned nothing.
C3_Witness ==
    /\ cpc = "raised"
    /\ page_count = 3
    /\ Len(intent_events) > 0
    /\ futures[2].status = "ok" /\ Len(futures[2].value) > 0
    /\ futures[3].status = "raised"
    /\ retrieved = NotRun

\* C4: a logical request makes at most two sends: a first send that succeeds
\* is the only one; a first send that fails is followed by the sleep and one
\* more send; when that one fails too the request raises to its caller and
\* nothing more is sent.
C4_AtMostTwoSends ==
    \A t \in Threads :
        LET tr == rtrace[t]
        IN  /\ Len(SendsOf(tr)) <= 2
            /\ tr \in { <<>>, <<"ok">>, <<"failed">>, <<"failed", "sleep">>,
                         <<"failed", "sleep", "ok">>,
                         <<"failed", "sleep", "failed">> }
            /\ tr = <<"failed">> => rpc[t] = "sleep"
            /\ tr = <<"failed", "sleep">> => rpc[t] = "send"
            /\ rpc[t] = "returned" =>
                  tr[Len(tr)] = "ok" /\ rresp[t] \in Responses(rreq[t])
            /\ tr = <<"failed", "sleep", "failed">> => rpc[t] = "raised"
            /\ (rpc[t] = "raised" /\ t = 0 /\ wpc = "polling") =>
                  ENABLED WaitRequestError

\* C4 witness: both sends of a poll failed and the request has raised.
C4_Witness ==
    /\ rtrace[0] = <<"failed", "sleep", "failed">>
    /\ rpc[0] = "raised"
    /\ wpc = "polling"

\* C5 (as the specification states it): DNCValidator.validate drops a record exactly when the
\* record has a phone and its first phone is flagged do-not-call, so a record
\* with an empty phone list is kept.
C5_DropsIffPrimaryDNC ==
    lastStage = "DNC" =>
        \A r \in Range(prevMd5s) :
            (r \notin Range(md5s)) <=>
                (Len(r.mobile_phones) > 0 /\ r.mobile_phones[1].do_not_call)

\* C7 (as the specification states it): every entry produced by uniquify_md5s has a sentence list
\* without duplicates once the codes are replaced by their labels; on the
\* events (m1,"7"), (m1,"Sports"), (m2,"7") both entries hold Sports once.
C7_NoDuplicateFragments ==
    uniq.status = "ok" =>
        /\ \A i \in 1..Len(uniq.value) : NoDuplicates(uniq.value[i].sentences)
        /\ events = << [md5 |-> "m1", sentence |-> <<"7">>],
                       [md5 |-> "m1", sentence |-> Sports],
                       [md5 |-> "m2", sentence |-> <<"7">>] >>
            => uniq.value = << [md5 |-> "m1", sentences |-> <<Sports>>],
                               [md5 |-> "m2", sentences |-> <<Sports>>] >>

\* C8 (as the specification states it): running uniquify_md5s on the (md5, sentence) pairs of its
\* own output returns the same identifiers, each with the same collection of
\* sentences, neither larger nor smaller.
C8_ReaggregationIdempotent ==
    reagg.status # "none" =>
        /\ reagg.status = "ok"
        /\ \A u \in Range(uniq.value) : \E v \in Range(reagg.value) :
               v.md5 = u.md5 /\ SameBag(v.sentences, u.sentences)
        /\ \A v \in Range(reagg.value) : \E u \in Range(uniq.value) :
               v.md5 = u.md5 /\ SameBag(v.sentences, u.sentences)

\* C6: the output of CallableValidator().validate(R) is contained in
\* HasPhoneValidator().validate(R), holds no record with an empty phone list,
\* and the phone-presence call is made first, the do-not-call call second on
\* the first call's result.
C6_CallableWithinHasPhone ==
    lastStage = "Callable" =>
        /\ Range(md5s) \subseteq Range(HasPhoneValidate(prevMd5s))
        /\ \A r \in Range(md5s) : Len(r.mobile_phones) > 0
        /\ Len(calls) = 2
        /\ calls[1] = Call("HasPhone", prevMd5s)
        /\ calls[2] = Call("DNC", HasPhoneValidate(prevMd5s))

\* C6 witness: CallableValidator ran on a list holding a record without
\* phones and a callable record, and returned only the callable one.
C6_Witness ==
    /\ lastStage = "Callable"
    /\ \E r \in Range(prevMd5s) : Len(r.mobile_phones) = 0
    /\ Len(md5s) = 1
    /\ Len(prevMd5s) = 2

\* C9: the identifiers of the records returned by pii_for_unique_md5s(I) are
\* identifiers of I, also when the response holds a key that is not in I, and
\* no more records are returned than I has entries.
C9_EnrichedWithinInput ==
    enriched.status = "ok" =>
        /\ {r.md5 : r \in Range(enriched.value)}
              \subseteq {u.md5 : u \in Range(unique_md5s)}
        /\ Len(enriched.value) <= Len(unique_md5s)

\* C9 witness: the response held the key m3 that was not asked for and covered
\* one of two input entries; one record was returned.
C9_Witness ==
    /\ enriched.status = "ok"
    /\ piiResponse.ok
    /\ "m3" \in DOMAIN piiResponse.returnData
    /\ Len(unique_md5s) = 2
    /\ Len(enriched.value) = 1

\* C11 (as the specification states it): _validate_phone hands the probe only
\* strings of exactly ten digits, and reports every input that does not reduce
\* to exactly ten digits invalid without a probe; "+11234567890" and
\* "11234567890" are probed as "1234567890" and "123" is not probed.
C11_ProbeOnlyTenDigits ==
    LET IsTenDigits(str) ==
            Len(str) = 10 /\ \A i \in 1..Len(str) : str[i] \in DigitChars
    IN  phoneResult.status # "none" =>
            /\ \A i \in 1..Len(phoneResult.probed) :
                   IsTenDigits(phoneResult.probed[i])
            /\ ~IsTenDigits(normalize_phone(phone)) =>
                   /\ phoneResult.probed = <<>>
                   /\ phoneResult.status = "ok" /\ phoneResult.value = FALSE
            /\ phone \in {<<"+", "1">> \o TenDigits, <<"1">> \o TenDigits} =>
                   phoneResult.probed = <<TenDigits>>
            /\ phone = <<"1", "2", "3">> => phoneResult.probed = <<>>

\* C11 (amended): _validate_phone drops a leading "+1" and then the leading
\* "1" of a string of eleven characters, and probes exactly the strings that
\* are then ten characters long, digits or not; every other input is reported
\* invalid without a probe.
C11_ProbeOnlyTenCharacters ==
    phoneResult.status # "none" =>
        /\ Len(phoneResult.probed) <= 1
        /\ \A i \in 1..Len(phoneResult.probed) : Len(phoneResult.probed[i]) = 10
        /\ phoneResult.probed = <<>> =>
               phoneResult.status = "ok" /\ phoneResult.value = FALSE
        /\ phone \in {<<"+", "1">> \o TenDigits, <<"1">> \o TenDigits,
                      <<"+", "1", "1">> \o TenDigits, TenDigits} =>
               phoneResult.probed = <<TenDigits>>
        /\ phone = <<"+", "1">> \o TenOthers => phoneResult.probed = <<TenOthers>>
        /\ phone \in {<<"1", "2", "3">>, NineDigits, ElevenDigits,
                      <<"+", "1">> \o NineDigits} =>
               phoneResult.probed = <<>>

\* C11 witness: "11234567890" was probed as "1234567890" and found valid.
C11_Witness ==
    /\ phone = <<"1">> \o TenDigits
    /\ phoneResult.probed = <<TenDigits>>
    /\ phoneResult.status = "ok" /\ phoneResult.value = TRUE

\* C15 (as the specification states it): the refresh-or-reuse check of
\* _request is safe under concurrent workers: no two workers are inside
\* _update_token at once, the token is fetched at most once per expiry, and no
\* worker evaluates the token and its expiration while another worker is between
\* the two assignments of _update_token.
C15_RefreshSafe ==
    LET InUpdate(t) == rpc[t] \in {"refresh", "store_expiration"}
    IN  /\ \A t, u \in Threads : InUpdate(t) /\ InUpdate(u) => t = u
        /\ accessToken <= 1 + expiries
        /\ \A t, u \in Threads :
               rpc[t] = "check" => rpc[u] # "store_expiration"

\* C16: create_and_wait polls only after create_job has returned a
\* listQueueId, and every poll asks for exactly that listQueueId; it returns
\* that listQueueId, and only after a poll observed the status 100; when the
\* polls return k values below 100 and then 100, exactly k + 1 polls are made
\* and the call returns without an error.
C16_CreateThenWait ==
    LET n == Len(statuses)
    IN  /\ polls > 0 => created # 0
        /\ rreq[0].kind = "checkList" =>
              created # 0 /\ rreq[0].listQueueId = created
        /\ handle # 0 <=> jpc = "returned"
        /\ jpc = "returned" =>
              /\ handle = created
              /\ n > 0 /\ statuses[n] = 100
              /\ \A i \in 1..(n - 1) : statuses[i] < 100
              /\ polls = n
        /\ (n > 0 /\ statuses[n] = 100) =>
              /\ polls = n
              /\ jpc \in {"waiting", "returned"}
              /\ jpc = "waiting" => ENABLED JobReturn

\* C16 witness: the job got the second listQueueId, the polls returned 99 and
\* then 100, and create_and_wait returned that listQueueId after two polls.
C16_Witness ==
    /\ jpc = "returned"
    /\ created = 2 /\ handle = 2
    /\ statuses = <<99, 100>>
    /\ polls = 2

\* C17: whatever validators have been chained so far, the records held are a
\* sub-sequence of the records first handed in, and the emails and the mobile
\* phones of every record held are sub-sequences of the lists that record had
\* at the start.
C17_StagesOnlyShrink ==
    /\ IsSubSeq([i \in 1..Len(md5s) |-> md5s[i].md5],
                [i \in 1..Len(inputMd5s) |-> inputMd5s[i].md5])
    /\ \A r \in Range(md5s) : \A orig \in Range(inputMd5s) :
           orig.md5 = r.md5 =>
               /\ IsSubSeq(r.emails, orig.emails)
               /\ IsSubSeq(r.mobile_phones, orig.mobile_phones)

\* C17 witness: after two stages one of two records is left, and it has lost
\* one of its two emails.
C17_Witness ==
    /\ nStages = 2 /\ stageStatus = "ok"
    /\ Len(inputMd5s) = 2 /\ Len(md5s) = 1
    /\ Len(md5s[1].emails) = 1
    /\ \E orig \in Range(inputMd5s) :
           orig.md5 = md5s[1].md5 /\ Len(orig.emails) = 2

\* C18 (as the specification states it): a validate() call leaves the records
\* it was given unchanged, whatever stage it is.
C18_StagesArePure ==
    lastStage # "none" => argAfter = prevMd5s

\* C18 (amended): HasPhoneValidator, DNCValidator and CallableValidator leave
\* the records they were given unchanged; EmailValidator and PhoneValidator,
\* when they return, have rewritten the emails (the mobile phones) of the very
\* records they were given and return the list they were given, every other
\* field being as it was; when they raise the records are unchanged.
C18_OnlyProbeStagesRewrite ==
    /\ lastStage \in {"HasPhone", "DNC", "Callable"} => argAfter = prevMd5s
    /\ stageStatus = "raised" => argAfter = prevMd5s /\ md5s = prevMd5s
    /\ (lastStage \in {"Email", "Phone"} /\ stageStatus = "ok") =>
          /\ argAfter = md5s
          /\ Len(argAfter) = Len(prevMd5s)
          /\ \A i \in 1..Len(prevMd5s) :
                /\ argAfter[i].md5 = prevMd5s[i].md5
                /\ lastStage = "Email" =>
                      argAfter[i].mobile_phones = prevMd5s[i].mobile_phones
                /\ lastStage = "Phone" =>
                      argAfter[i].emails = prevMd5s[i].emails

\* C18 witness: EmailValidator returned and a record it was given has fewer
\* emails than before the call.
C18_Witness ==
    /\ lastStage = "Email" /\ stageStatus = "ok"
    /\ \E i \in 1..Len(prevMd5s) :
           Len(argAfter[i].emails) < Len(prevMd5s[i].emails)

\* C12 (as the specification states it): after EmailValidator.validate has
\* returned, the emails of every record are, in their original order, exactly
\* the original emails the probe reported valid, and none of them is an email
\* the probe reported invalid, also when an email occurs in several records.
C12_KeepsExactlyReportedValid ==
    LET items == Items(vkind, vinput)
        Reported(e, answer) ==
            \E j \in 1..Len(items) : items[j] = e /\ pfut[j] = answer
    IN  (vpc = "returned" /\ vkind = "Email") =>
            \A r \in 1..Len(vmd5s) :
                /\ IsSubSeq(vmd5s[r].emails, vinput[r].emails)
                /\ \A e \in Range(vinput[r].emails) :
                       e \in Range(vmd5s[r].emails) <=> Reported(e, "valid")
                /\ \A e \in Range(vmd5s[r].emails) : ~Reported(e, "invalid")

\* C12 (amended): after EmailValidator.validate has returned, the emails of
\* every record are, in their original order and with their repetitions, the
\* original emails for which at least one of the probes made in this call
\* reported valid; every occurrence of an email is probed on its own, and an
\* email is kept in every record as soon as one of its probes said valid. When
\* all the probes of each email agree, no email reported invalid is kept.
C12_KeepsReportedValidOnce ==
    LET items == Items(vkind, vinput)
        Reported(e, answer) ==
            \E j \in 1..Len(items) : items[j] = e /\ pfut[j] = answer
    IN  (vpc = "returned" /\ vkind = "Email") =>
            /\ Len(vmd5s) = Len(vinput)
            /\ Len(pfut) = Len(items)
            /\ \A r \in 1..Len(vmd5s) :
                   vmd5s[r].emails =
                       SelectSeq(vinput[r].emails,
                                 LAMBDA e : Reported(e, "valid"))
            /\ (\A j, k \in 1..Len(items) :
                    items[j] = items[k] => pfut[j] = pfut[k])
                => \A r \in 1..Len(vmd5s) : \A e \in Range(vmd5s[r].emails) :
                       ~Reported(e, "invalid")

\* C12 witness: an email of two records was reported invalid by the probe of
\* the first record and valid by the probe of the second, and validate
\* returned with the email in both records.
C12_Witness ==
    /\ vpc = "returned" /\ vkind = "Email"
    /\ Len(vmd5s) = 2
    /\ vinput[1].emails = <<"e1">> /\ vinput[2].emails = <<"e2", "e1">>
    /\ pfut = <<"invalid", "invalid", "valid">>
    /\ vmd5s[1].emails = <<"e1">> /\ vmd5s[2].emails = <<"e1">>

\* C13: in the page fan-out no more pull_page calls are in flight than
\* n_threads, and in the email and phone fan-outs no more probes than
\* max_threads.
C13_InFlightWithinWorkers ==
    /\ Cardinality({w \in 1..MaxThreads : running[w] # 0}) <= n_threads
    /\ Cardinality({t \in 1..MaxThreads : rpc[t] # "idle"}) <= n_threads
    /\ Cardinality({w \in 1..MaxThreads : prunning[w] # 0}) <= max_threads
    /\ Cardinality({i \in 1..Len(pfut) : pfut[i] = "running"}) <= max_threads

\* C13 witness: a pool of one worker is probing one entry while two more
\* wait in the queue.
C13_Witness ==
    /\ vpc = "pool" /\ max_threads = 1 /\ Len(pfut) = 3
    /\ prunning[1] = 1 /\ pfut[1] = "running"
    /\ pqueue = <<2, 3>>

\* C14: whatever the order in which the pool ends the calls, the i-th result
\* taken from the iterator is the result of the i-th entry submitted, so the
\* zip pairs every email or phone with its own probe result; the rows
\* retrieve_md5s returns are those of page 1, then of page 2, and so on, each
\* future holding the rows of its own page.
C14_ResultsInSubmissionOrder ==
    /\ \A i \in 1..Len(collected) :
           /\ collected[i].item = i
           /\ pfut[i] \in {"valid", "invalid"}
           /\ collected[i].valid = (pfut[i] = "valid")
    /\ vpc = "returned" =>
           /\ Len(collected) = Len(Items(vkind, vinput))
           /\ vmd5s = Rewrite(vkind, vinput,
                  SelectSeq(Items(vkind, vinput),
                      LAMBDA x : \E i \in 1..Len(pfut) :
                          Items(vkind, vinput)[i] = x /\ pfut[i] = "valid"))
    /\ \A p \in DOMAIN futures : \A i \in 1..Len(futures[p].value) :
           futures[p].value[i].sentence = p
    /\ cpc = "returned" =>
           retrieved.value =
               intent_events
               \o Concat([i \in 1..Len(Ascending(PageRange(page_count))) |->
                             futures[i + 1].value])

\* C14 witness: with two workers the third probe has ended while the second
\* is still running, and the only result taken so far is that of the first.
C14_Witness ==
    /\ vpc = "pool" /\ Len(pfut) = 3
    /\ Len(collected) = 1 /\ collected[1].item = 1
    /\ pfut[2] = "running"
    /\ pfut[3] \in Done

\* C19: when a probe of EmailValidator.validate or PhoneValidator.validate has
\* raised, validate does not return: it ends by raising, and the lists of the
\* records are as they were at the call; a list is only ever rewritten after
\* every probe has returned True or False.
C19_RaisesBeforeRewriting ==
    /\ (\E i \in 1..Len(pfut) : pfut[i] = "error") =>
          /\ vpc \in {"pool", "failing", "raised"}
          /\ vmd5s = vinput
          /\ vreturn.status # "ok"
          /\ ~ENABLED ProbeRewrite
    /\ vpc \in {"failing", "raised"} => vmd5s = vinput
    /\ vpc = "raised" => vreturn = Raised
    /\ (vpc = "failing" /\ \A w \in 1..MaxThreads : prunning[w] = 0) =>
          ENABLED ProbeRaise
    /\ vmd5s # vinput =>
          /\ vpc = "returned"
          /\ \A i \in 1..Len(pfut) : pfut[i] \in {"valid", "invalid"}

\* C19 witness: the first probe reported invalid, a later probe raised, and
\* validate raised with the records as they were.
C19_Witness ==
    /\ vpc = "raised"
    /\ Len(pfut) = 3
    /\ pfut[1] = "invalid" /\ pfut[3] = "error"
    /\ vmd5s = vinput

\* C20 (as the specification states it): when retrieve_md5s or a probing
\* validate has ended, every unit that was submitted to the pool has been
\* run to its result or its exception.
C20_EveryUnitRuns ==
    /\ cpc \in {"returned", "raised"} =>
          \A p \in DOMAIN futures : futures[p].status \in {"ok", "raised"}
    /\ vpc \in {"returned", "raised"} =>
          \A i \in 1..Len(pfut) : pfut[i] \in Done

\* C20 (amended): when retrieve_md5s has ended after page 1 came back, every
\* page of 2..N has been fetched to its rows or its exception, also when one
\* of them failed. When a probing validate returns, every probe has been run;
\* when a probe result raises out of the iterator, the probes no worker has
\* started yet are cancelled and never run, while those running are awaited,
\* so that at the end every probe has been run or cancelled, and the
\* cancelled ones were submitted after the probe whose exception was raised.
C20_RunsOrCancelsAfterFailure ==
    /\ cpc \in {"returned", "raised"} =>
          /\ DOMAIN futures = PageRange(page_count)
          /\ \A p \in DOMAIN futures :
                /\ futures[p].status \in {"ok", "raised"}
                /\ Count(fetched, p) = 1
    /\ vpc = "returned" => \A i \in 1..Len(pfut) : pfut[i] \in Done
    /\ vpc \in {"failing", "raised"} =>
          /\ pqueue = <<>>
          /\ \A i \in 1..Len(pfut) : pfut[i] # "pending"
          /\ pfut[Len(collected) + 1] = "error"
    /\ vpc = "raised" =>
          \A i \in 1..Len(pfut) : pfut[i] \in Done \cup {"cancelled"}
    /\ \A i \in 1..Len(pfut) :
          pfut[i] = "cancelled" =>
              /\ vpc \in {"failing", "raised"}
              /\ i > Len(collected) + 1
              /\ \A w \in 1..MaxThreads : prunning[w] # i

\* C20 witness: the first probe raised while the second was waiting in the
\* queue; the second was cancelled and validate raised without running it.
C20_Witness ==
    /\ vpc = "raised"
    /\ Len(pfut) >= 2
    /\ pfut[1] = "error"
    /\ pfut[2] = "cancelled"

\* C10: constructing an IABJob fails exactly when intent_categories, keywords
\* and domains are all empty; zips play no part.
C10_ValidationIffAllEmpty ==
    jobResult # "none" =>
        ((jobResult = "ValidationError") <=>
            (job.intent_categories = <<>> /\ job.keywords = <<>>
             /\ job.domains = <<>>))

\* C10 witness: a job with zips only was rejected.
C10_Witness ==
    /\ jobResult = "ValidationError"
    /\ Len(job.zips) > 0

\* C21: pii_for_unique_md5s(I) raises exactly when the request raised, when
\* returnData holds an empty list for a key, or when the detail object of an
\* identifier of I lacks a required field; on every other response, an empty
\* or partly covering one included, it returns one record for each entry of
\* I whose identifier is a key of returnData and none for the others, in the
\* order of I, each with the identifier and the fragments of its entry and
\* the detail object returned for it.
C21_OneRecordPerCoveredEntry ==
    LET data == piiResponse.returnData
        covered == SelectSeq(unique_md5s, LAMBDA u : u.md5 \in DOMAIN data)
        usable ==
            /\ piiResponse.ok
            /\ \A k \in DOMAIN data : data[k] # <<>>
            /\ \A i \in 1..Len(covered) : data[covered[i].md5] = <<"complete">>
    IN  enriched.status # "none" =>
            /\ enriched.status = "ok" <=> usable
            /\ enriched.status = "ok" =>
                  /\ Len(enriched.value) = Len(covered)
                  /\ \A i \in 1..Len(covered) :
                        /\ enriched.value[i].md5 = covered[i].md5
                        /\ Range(enriched.value[i].sentences)
                              = Range(covered[i].sentences)
                        /\ enriched.value[i].pii = data[covered[i].md5][1]

\* C21 witness: of the two identifiers asked for only the second is a key of
\* returnData; the call returned the one record of the second.
C21_Witness ==
    /\ enriched.status = "ok"
    /\ Len(unique_md5s) = 2
    /\ unique_md5s[1].md5 = "m1" /\ unique_md5s[2].md5 = "m2"
    /\ DOMAIN piiResponse.returnData = {"m2"}
    /\ Len(enriched.value) = 1
    /\ enriched.value[1].md5 = "m2"

\* C22: when retrieve_md5s returns, the rows it returns are those of page 1
\* as its one fetch returned them and, for every page of 2..N, those the one
\* fetch of that page returned: each row as often as it was returned, none
\* lost, none added, and page 1 fetched once and by no pool worker, in every
\* interleaving of the workers.
C22_AllRowsOnce ==
    cpc = "returned" =>
        LET out == retrieved.value
            RowsOf(p) == SelectSeq(out, LAMBDA e : e.sentence = p)
            Total[p \in 1..(MaxPages + 1)] ==
                IF p = 1 THEN Len(intent_events)
                ELSE Total[p - 1]
                     + (IF p \in DOMAIN futures THEN Len(futures[p].value) ELSE 0)
        IN  /\ retrieved.status = "ok"
            /\ DOMAIN futures = PageRange(page_count)
            /\ RowsOf(1) = intent_events
            /\ \A p \in DOMAIN futures :
                   futures[p].status = "ok" /\ RowsOf(p) = futures[p].value
            /\ \A i \in 1..Len(out) :
                   out[i].sentence \in {1} \cup PageRange(page_count)
            /\ Len(out) = Total[MaxPages + 1]
            /\ SameBag(out,
                       intent_events
                       \o Concat([i \in 1..Cardinality(DOMAIN futures) |->
                                     futures[i + 1].value]))
            /\ Count(fetched, 1) = 1
            /\ \A w \in 1..MaxThreads : running[w] # 1

\* C22 witness: three pages of two rows each were fetched and retrieve_md5s
\* returned the six rows.
C22_Witness ==
    /\ cpc = "returned"
    /\ page_count = 3
    /\ Len(intent_events) = 2
    /\ Len(retrieved.value) = 6

\* C23: when uniquify_md5s returns, its entries carry pairwise different
\* identifiers, which are exactly the identifiers of the events given; every
\* fragment of an entry is the sentence of an event of that identifier, or
\* the category of its code, and every event is represented in the entry of
\* its identifier; so there are no more entries than events.
C23_OneEntryPerIdentifier ==
    LET Fragment(e) ==
            IF isnumeric(e.sentence) THEN code_to_category(e.sentence)
            ELSE e.sentence
    IN  uniq.status = "ok" =>
            /\ \A i, j \in 1..Len(uniq.value) :
                   uniq.value[i].md5 = uniq.value[j].md5 => i = j
            /\ {u.md5 : u \in Range(uniq.value)} = {e.md5 : e \in Range(events)}
            /\ \A u \in Range(uniq.value) :
                   Range(u.sentences)
                       = {Fragment(e) : e \in {x \in Range(events) : x.md5 = u.md5}}
            /\ Len(uniq.value) <= Len(events)

\* C23 witness: three events of two identifiers gave two entries.
C23_Witness ==
    /\ uniq.status = "ok"
    /\ Len(events) = 3
    /\ events[1].md5 = "m1" /\ events[2].md5 = "m2" /\ events[3].md5 = "m1"
    /\ Len(uniq.value) = 2

====
